---- MODULE Spec2Model ----
(***************************************************************************)
(* ts-enums: the enum registration and sealing protocol of                 *)
(* src/src/ts-enums.ts.  The file holds two builds of the library, the     *)
(* TypeScript source (lines 1-165) and the ES5 bundle (lines 166-353).     *)
(* A run is one program linked against one of the two builds; `variant`    *)
(* says which.  Both builds are ES modules, hence strict-mode code: a      *)
(* write to a frozen object throws a TypeError.                            *)
(***************************************************************************)
EXTENDS Integers, Sequences, FiniteSets, TLC

\* ---------------------------------------------------------------- bounds
MaxInst == 2      \* EnumValue instances a run constructs
MaxProps == 2     \* own properties defined over all Enum objects of a run
MaxOps == 5       \* operations of a run

\* -------------------------------------------------------- input domains
Range(seq) == {seq[j] : j \in 1..Len(seq)}

Variants == {"ts", "es5"}
ClassOrder == <<"Color", "Shape">>     \* concrete EnumValue subclasses
DescOrder == <<"red", "blue">>         \* description strings
NameOrder == <<"N1", "N2">>            \* registration names
GroupOrder == <<1, 2>>                 \* Enum objects of the run
IndexKeyOrder == <<"0", "1">>          \* integer-index keys, ascending
StringKeyOrder == <<"A", "B">>         \* other property keys
Classes == Range(ClassOrder)
Descs == Range(DescOrder)
Names == Range(NameOrder)
Groups == Range(GroupOrder)
IndexKeys == Range(IndexKeyOrder)
StringKeys == Range(StringKeyOrder)
Keys == IndexKeys \cup StringKeys

Undefined == "undefined"   \* an absent string field, an absent lookup result
NoOrdinal == -1            \* `_ordinal` is not an own property
Other == 0                 \* a property value that is no EnumValue
NoArray == "none"          \* no array
NotFound == 0              \* the `undefined` that Array.prototype.find returns
Client == "client"         \* the heap cell of the array the client holds
Cells == Names \cup {Client}   \* the array registered under n lives in cell n

\* outcomes of an operation
Ok == "ok"
DuplicateName == "Duplicate name"
DuplicateDescription == "All descriptions must be unique"
IllegalInstantiation == "EnumValue classes can't be instantiated individually"
TypeErr == "TypeError"

VARIABLES
  variant,      \* the build the run uses
  inst,         \* the EnumValue instances, by construction order
  sizes,        \* EnumValue.sizes (ES5 build): class -> instances constructed
  initialized,  \* classes that carry the INITIALIZED marker
  group,        \* the Enum objects: own properties, name, frozen
  arrays,       \* the heap of arrays: elements and frozen flag
  enumValues,   \* Enum.enumValues: name -> array (NoArray when not a key)
  held,         \* the array the client got from its last read of `values`
  owner,        \* history: the pairs <<name, Enum object whose initEnum registered it>>
  steps,        \* operations made so far
  last,         \* the last operation and the Enum object it was called on
  err           \* its outcome

vars == <<variant, inst, sizes, initialized, group, arrays, enumValues, held,
          owner, steps, last, err>>

\* ------------------------------------------------------------- helpers
InstIds == 1..Len(inst)

Op(name, g) == [op |-> name, g |-> g]

\* one more operation of the run, other than a successful initEnum
Counts(name, g) ==
  /\ steps < MaxOps
  /\ steps' = steps + 1
  /\ last' = Op(name, g)

Does(name, g) ==
  /\ Counts(name, g)
  /\ UNCHANGED owner

\* position of key k in a property list, 0 when k is no own property
KeyPos(props, k) ==
  LET hits == {j \in 1..Len(props) : props[j].key = k}
  IN IF hits = {} THEN 0 ELSE CHOOSE j \in hits : TRUE

HasKey(props, k) == KeyPos(props, k) # 0

PropValue(props, k) == props[KeyPos(props, k)].val

OwnPropertyNamesAsCreated(props) == [j \in 1..Len(props) |-> props[j].key]

\* Object.getOwnPropertyNames: integer-index keys in ascending numeric order,
\* then the other string keys in the order they were created
OwnPropertyNames(props) ==
  LET created == [j \in 1..Len(props) |-> props[j].key]
  IN SelectSeq(IndexKeyOrder, LAMBDA k : HasKey(props, k))
       \o SelectSeq(created, LAMBDA k : k \notin IndexKeys)

\* theEnum[propName] instanceof EnumValue
IsEnumValue(v) == v # Other

\* the filter step of enumValuesFromObject
MemberKeys(props) ==
  SelectSeq(OwnPropertyNames(props), LAMBDA k : IsEnumValue(PropValue(props, k)))

TotalProps == Len(group[1].props) + Len(group[2].props)

\* The library compares classes, descriptions, names and string keys only
\* for equality and treats all Enum objects alike, so a run is told from its
\* renamings by nothing.  One run of each family is explored: an operation
\* takes a value the state already holds, or the first one it does not hold.
Usable(order, used) ==
  {order[j] : j \in {j \in 1..Len(order) :
                       order[j] \in used \/ \A h \in 1..(j - 1) : order[h] \in used}}

UsableClasses == Usable(ClassOrder, {inst[i].cls : i \in InstIds})
UsableDescs == Usable(DescOrder, {inst[i].description : i \in InstIds})
UsableNames ==
  Usable(NameOrder, {group[g].name : g \in Groups}
                      \cup {n \in Names : enumValues[n] # NoArray})
UsableGroups ==
  Usable(GroupOrder, {g \in Groups : group[g].props # <<>> \/ group[g].name # Undefined})
UsableKeys ==
  IndexKeys \cup
  Usable(StringKeyOrder, UNION {{group[g].props[j].key : j \in 1..Len(group[g].props)} : g \in Groups}
                           \cup {inst[i].propName : i \in InstIds})

\* The client keeps an array it got from `values` only until its next call
\* into the library or its next write to another object: the array in the
\* client's cell is then garbage.  Arrays the registry holds stay.
Dropped(arrs) == [arrs EXCEPT ![Client] = [elems |-> <<>>, frozen |-> FALSE]]

DropHeld == held' = NoArray

\* --------------------------------------------------------------- Init
Init ==
  /\ variant \in Variants
  /\ inst = <<>>
  /\ sizes = [c \in Classes |-> 0]
  /\ initialized = {}
  /\ group = [g \in Groups |-> [props |-> <<>>, name |-> Undefined, frozen |-> FALSE]]
  /\ arrays = [a \in Cells |-> [elems |-> <<>>, frozen |-> FALSE]]
  /\ enumValues = [n \in Names |-> NoArray]
  /\ held = NoArray
  /\ owner = {}
  /\ steps = 0
  /\ last = Op("start", 0)
  /\ err = Ok

\* ------------------------------------------------ new ConcreteValue(d)
\* the constructor's guard: the class carries the marker as an own property
IsSealedClass(c) == c \in initialized

\* a constructor that numbers the instances of all classes with one counter
NewInstanceGlobalCounter(c, d) ==
  [cls |-> c, description |-> d,
   ordinal |-> IF variant = "es5" THEN Len(inst) ELSE NoOrdinal,
   propName |-> Undefined, frozen |-> FALSE]

\* the instance a successful construction yields
NewInstance(c, d) ==
  [cls |-> c, description |-> d,
   ordinal |-> IF variant = "es5" THEN sizes[c] ELSE NoOrdinal,
   propName |-> Undefined, frozen |-> FALSE]

Construct(c, d) ==
  /\ Does("new", 0)
  /\ IF IsSealedClass(c)
       THEN /\ err' = IllegalInstantiation
            /\ UNCHANGED <<inst, sizes>>
       ELSE /\ Len(inst) < MaxInst
            /\ err' = Ok
            /\ inst' = Append(inst, NewInstance(c, d))
            /\ sizes' = IF variant = "es5"
                          THEN [sizes EXCEPT ![c] = @ + 1]
                          ELSE sizes
  /\ DropHeld
  /\ arrays' = Dropped(arrays)
  /\ UNCHANGED <<variant, initialized, group, enumValues>>

\* ------------------------------------------------- client: g[k] = v
\* an assignment to an own property of an Enum object (strict mode)
AssignProp(props, k, v) ==
  IF HasKey(props, k)
    THEN [props EXCEPT ![KeyPos(props, k)].val = v]
    ELSE Append(props, [key |-> k, val |-> v])

DefineProp(g, k, v) ==
  /\ Does("client", 0)
  /\ IF group[g].frozen
       THEN /\ err' = TypeErr
            /\ UNCHANGED group
       ELSE /\ HasKey(group[g].props, k) \/ TotalProps < MaxProps
            /\ err' = Ok
            /\ group' = [group EXCEPT ![g].props = AssignProp(@, k, v)]
  /\ DropHeld
  /\ arrays' = Dropped(arrays)
  /\ UNCHANGED <<variant, inst, sizes, initialized, enumValues>>

\* ------------------------------------------------ client: delete g[k]
RemoveProp(props, k) ==
  [j \in 1..(Len(props) - 1) |-> IF j < KeyPos(props, k) THEN props[j] ELSE props[j + 1]]

DeleteProp(g, k) ==
  /\ HasKey(group[g].props, k)
  /\ Does("client", 0)
  /\ IF group[g].frozen
       THEN /\ err' = TypeErr
            /\ UNCHANGED group
       ELSE /\ err' = Ok
            /\ group' = [group EXCEPT ![g].props = RemoveProp(@, k)]
  /\ DropHeld
  /\ arrays' = Dropped(arrays)
  /\ UNCHANGED <<variant, inst, sizes, initialized, enumValues>>

\* ------------------------------------- client: v._description = d
WriteDescription(i, d) ==
  /\ Does("client", 0)
  /\ IF inst[i].frozen
       THEN /\ err' = TypeErr
            /\ UNCHANGED inst
       ELSE /\ err' = Ok
            /\ inst' = [inst EXCEPT ![i].description = d]
  /\ DropHeld
  /\ arrays' = Dropped(arrays)
  /\ UNCHANGED <<variant, sizes, initialized, group, enumValues>>

\* --------------------------------------------------- g.initEnum(name)
\* Object.defineProperty(o, p, {value, writable: false, configurable: false})
\* succeeds when p is no own property of an extensible o, or when p is
\* already the same non-configurable, non-writable property.
CanDefineAlways(frozen, current, absent, value) == TRUE

CanDefine(frozen, current, absent, value) ==
  IF current = absent THEN ~frozen ELSE current = value

\* the map callback of enumValuesFromObject on one member: the new state of
\* the instance, and whether the callback returned (no TypeError)
SealMember(v, k, index) ==
  IF variant = "ts"
    THEN IF ~CanDefine(v.frozen, v.ordinal, NoOrdinal, index)
           THEN [v |-> v, ok |-> FALSE]
         ELSE IF ~CanDefine(v.frozen, v.propName, Undefined, k)
           THEN [v |-> [v EXCEPT !.ordinal = index], ok |-> FALSE]
         ELSE [v |-> [v EXCEPT !.ordinal = index, !.propName = k, !.frozen = TRUE],
               ok |-> TRUE]
    ELSE IF ~CanDefine(v.frozen, v.propName, Undefined, k)
           THEN [v |-> v, ok |-> FALSE]
         ELSE [v |-> [v EXCEPT !.propName = k, !.frozen = TRUE], ok |-> TRUE]

\* the map over the member keys from position j on (index j - 1)
RECURSIVE SealFrom(_, _, _, _)
SealFrom(insts, props, keys, j) ==
  IF j > Len(keys) THEN [inst |-> insts, ok |-> TRUE]
  ELSE LET i == PropValue(props, keys[j])
           r == SealMember(insts[i], keys[j], j - 1)
           next == [insts EXCEPT ![i] = r.v]
       IN IF r.ok THEN SealFrom(next, props, keys, j + 1)
          ELSE [inst |-> next, ok |-> FALSE]

\* the filter and map of enumValuesFromObject on the Enum object's properties
EnumValuesFromObject(insts, props) == SealFrom(insts, props, MemberKeys(props), 1)

\* values[0].constructor[INITIALIZED] = true
MarkInitialized(insts, values) ==
  IF Len(values) > 0 THEN initialized \cup {insts[values[1]].cls} ELSE initialized

\* Array.prototype.indexOf, 1-based here
IndexOf(seq, x) ==
  LET hits == {j \in 1..Len(seq) : seq[j] = x}
  IN IF hits = {} THEN 0 ELSE CHOOSE j \in hits : \A h \in hits : j <= h

\* Enum.unique: the elements that are the first occurrence of their value
RECURSIVE UniqueFrom(_, _)
UniqueFrom(seq, j) ==
  IF j > Len(seq) THEN <<>>
  ELSE (IF IndexOf(seq, seq[j]) = j THEN <<seq[j]>> ELSE <<>>) \o UniqueFrom(seq, j + 1)

Unique(seq) == UniqueFrom(seq, 1)

\* the description check of the ES5 build; the TypeScript build has none
DescriptionsUnique(insts, values) ==
  IF variant = "es5"
    THEN LET descriptions == [j \in 1..Len(values) |-> insts[values[j]].description]
         IN Len(values) = Len(Unique(descriptions))
    ELSE TRUE

\* Enum.enumValues.has(theEnum.name)
IsRegistered(n) == n \in Names /\ enumValues[n] # NoArray

\* what the static initEnum freezes: the array (TS) or the Enum object (ES5)
FreezesArray == variant = "ts"
FreezesEnum == variant = "es5"

InitEnum(g, n) ==
  /\ Counts("initEnum", g)
  /\ IF group[g].frozen
       THEN \* this.name = name on a frozen object
            /\ err' = TypeErr
            /\ arrays' = Dropped(arrays)
            /\ UNCHANGED <<inst, initialized, group, enumValues>>
     ELSE IF IsRegistered(n)
       THEN /\ err' = DuplicateName
            /\ group' = [group EXCEPT ![g].name = n]
            /\ arrays' = Dropped(arrays)
            /\ UNCHANGED <<inst, initialized, enumValues>>
     ELSE LET props == group[g].props
              keys == MemberKeys(props)
              values == [j \in 1..Len(keys) |-> PropValue(props, keys[j])]
              sealed == EnumValuesFromObject(inst, props)
          IN /\ inst' = sealed.inst
             /\ IF ~sealed.ok
                  THEN /\ err' = TypeErr
                       /\ group' = [group EXCEPT ![g].name = n]
                       /\ arrays' = Dropped(arrays)
                       /\ UNCHANGED <<initialized, enumValues>>
                ELSE IF ~DescriptionsUnique(sealed.inst, values)
                  THEN /\ err' = DuplicateDescription
                       /\ initialized' = MarkInitialized(sealed.inst, values)
                       /\ group' = [group EXCEPT ![g].name = n]
                       /\ arrays' = Dropped(arrays)
                       /\ UNCHANGED enumValues
                ELSE /\ err' = Ok
                     /\ initialized' = MarkInitialized(sealed.inst, values)
                     /\ group' = [group EXCEPT ![g].name = n, ![g].frozen = FreezesEnum]
                     /\ arrays' = [Dropped(arrays) EXCEPT
                                    ![n] = [elems |-> values, frozen |-> FreezesArray]]
                     /\ enumValues' = [enumValues EXCEPT ![n] = n]
  /\ owner' = IF err' = Ok THEN owner \cup {<<n, g>>} ELSE owner
  /\ DropHeld
  /\ UNCHANGED <<variant, sizes>>

\* ------------------------------------------------------------ g.values
\* the static Enum.values(name): the cell of the array it returns and the
\* elements of that array; a copy is a new array, in the client's cell
ValuesLive(name) ==
  IF IsRegistered(name)
    THEN [cell |-> enumValues[name], elems |-> arrays[enumValues[name]].elems]
    ELSE [cell |-> Client, elems |-> <<>>]

Values(name) ==
  IF IsRegistered(name)
    THEN [cell |-> Client, elems |-> arrays[enumValues[name]].elems]
    ELSE [cell |-> Client, elems |-> <<>>]

\* the elements a read of g.values yields
GroupValues(g) == Values(group[g].name).elems

ReadValues(g) ==
  LET r == Values(group[g].name)
  IN /\ Does("values", g)
     /\ err' = Ok
     /\ held' = r.cell
     /\ arrays' = IF r.cell = Client
                    THEN [arrays EXCEPT ![Client] = [elems |-> r.elems, frozen |-> FALSE]]
                    ELSE arrays
     /\ UNCHANGED <<variant, inst, sizes, initialized, group, enumValues>>

\* ------------------------------ g.byPropName(s), g.byDescription(s)
\* Array.prototype.find: the first element that is among the matching ones,
\* or undefined
FindFirst(elems, matching) ==
  LET hits == {j \in 1..Len(elems) : elems[j] \in matching}
  IN IF hits = {} THEN NotFound
     ELSE elems[CHOOSE j \in hits : \A h \in hits : j <= h]

ByPropName(g, s) == FindFirst(GroupValues(g), {i \in InstIds : inst[i].propName = s})

ByDescription(g, s) == FindFirst(GroupValues(g), {i \in InstIds : inst[i].description = s})

\* --------------------------------- client: writes to the array it holds
Reverse(seq) == [j \in 1..Len(seq) |-> seq[Len(seq) + 1 - j]]

Written(elems, kind, i) ==
  CASE kind = "push" -> Append(elems, i)
    [] kind = "pop" -> SubSeq(elems, 1, Len(elems) - 1)
    [] kind = "store" -> [elems EXCEPT ![1] = i]
    [] kind = "reverse" -> Reverse(elems)

WriteKinds == {"push", "pop", "store", "reverse"}

WriteHeld(kind, i) ==
  /\ held # NoArray
  /\ kind \in {"pop", "store", "reverse"} => Len(arrays[held].elems) > 0
  /\ kind = "reverse" => Reverse(arrays[held].elems) # arrays[held].elems
  /\ Does("arrayWrite", last.g)
  /\ IF arrays[held].frozen
       THEN /\ err' = TypeErr
            /\ UNCHANGED arrays
       ELSE /\ err' = Ok
            /\ arrays' = [arrays EXCEPT ![held].elems = Written(@, kind, i)]
  /\ UNCHANGED <<variant, inst, sizes, initialized, group, enumValues, held>>

Next ==
  \/ \E c \in UsableClasses, d \in UsableDescs : Construct(c, d)
  \/ \E g \in UsableGroups, k \in UsableKeys, v \in InstIds \cup {Other} : DefineProp(g, k, v)
  \/ \E g \in Groups, k \in Keys : DeleteProp(g, k)
  \/ \E i \in InstIds, d \in UsableDescs : WriteDescription(i, d)
  \/ \E g \in UsableGroups, n \in UsableNames : InitEnum(g, n)
  \/ \E g \in UsableGroups : ReadValues(g)
  \/ \E kind \in WriteKinds, i \in InstIds : WriteHeld(kind, i)

Spec == Init /\ [][Next]_vars

\* ================================================================ claims
\* ---- vocabulary of the claims
\* the registry as a client could observe it: name -> <<sequence>>, or <<>>
\* for a name that is no key
Registry ==
  [n \in Names |-> IF IsRegistered(n) THEN <<arrays[enumValues[n]].elems>> ELSE <<>>]

RegisteredElems(n) == arrays[enumValues[n]].elems

\* the EnumValue instances that are values of g's own properties
OwnMembers(g) ==
  {group[g].props[j].val : j \in {j \in 1..Len(group[g].props) :
                                     IsEnumValue(group[g].props[j].val)}}

\* the instances g's own successful initEnum calls registered
SealedMembers(g) ==
  UNION {Range(RegisteredElems(n)) : n \in {n \in Names : <<n, g>> \in owner}}

MembersOf(g) == OwnMembers(g) \cup SealedMembers(g)

\* g has two EnumValue-valued properties that hold two instances, neither
\* of them sealed yet, with the same description
HasDuplicateDescription(g) ==
  \E j, h \in 1..Len(group[g].props) :
    /\ group[g].props[j].val # group[g].props[h].val
    /\ \A i \in OwnMembers(g) : ~inst[i].frozen
    /\ IsEnumValue(group[g].props[j].val)
    /\ IsEnumValue(group[g].props[h].val)
    /\ inst[group[g].props[j].val].description = inst[group[g].props[h].val].description

\* the keys of the EnumValue-valued properties, in the order they were defined
DefinedMemberKeys(props) ==
  SelectSeq([j \in 1..Len(props) |-> props[j].key],
            LAMBDA k : IsEnumValue(PropValue(props, k)))

\* key k1 comes before key k2 in the order the language gives own property
\* names: integer indices ascending, then the other keys as defined
KeyBefore(props, k1, k2) ==
  IF k1 \in IndexKeys
    THEN k2 \in IndexKeys => IndexOf(IndexKeyOrder, k1) < IndexOf(IndexKeyOrder, k2)
    ELSE k2 \notin IndexKeys /\ KeyPos(props, k1) < KeyPos(props, k2)

JustSealed == last.op = "initEnum" /\ err = Ok

\* C1: an initEnum call whose name is already a key of the registry fails
\* with the duplicate-name error, whichever Enum object makes it, and leaves
\* every registered sequence as it was.
C1_DuplicateNameFails ==
  [][\A g \in Groups, n \in Names :
       (IsRegistered(n) /\ InitEnum(g, n))
         => (err' = DuplicateName /\ Registry' = Registry)]_vars

\* C2: once a sequence is registered, the constructor of the class of every
\* one of its elements, at any position, rejects construction.
C2_MemberClassesAreSealed ==
  \A n \in Names : IsRegistered(n) =>
    \A j \in 1..Len(RegisteredElems(n)) : IsSealedClass(inst[RegisteredElems(n)[j]].cls)

\* C3: two distinct positions of a registered sequence hold instances with
\* different descriptions.
C3_DescriptionsDistinct ==
  \A n \in Names : IsRegistered(n) =>
    \A j, h \in 1..Len(RegisteredElems(n)) :
      j # h => inst[RegisteredElems(n)[j]].description
                 # inst[RegisteredElems(n)[h]].description

\* C4: the ordinal of every element of a registered sequence is its 0-based
\* position in the sequence.
C4_OrdinalIsPosition ==
  \A n \in Names : IsRegistered(n) =>
    \A j \in 1..Len(RegisteredElems(n)) : inst[RegisteredElems(n)[j]].ordinal = j - 1

\* C5: an initEnum call, under a name that is free, on an Enum object two of
\* whose members have the same description fails with the
\* duplicate-description error and registers nothing under the name.
C5_DuplicateDescriptionFails ==
  [][\A g \in Groups, n \in Names :
       (HasDuplicateDescription(g) /\ ~IsRegistered(n) /\ InitEnum(g, n))
         => (err' = DuplicateDescription /\ ~IsRegistered(n)')]_vars

\* C6: an initEnum call that fails with the duplicate-name or the
\* duplicate-description error leaves the registry, every instance, every
\* sealed marker and the Enum object's name as they were.
C6_FailedSealChangesNothing ==
  [][\A g \in Groups, n \in Names :
       (InitEnum(g, n) /\ err' \in {DuplicateName, DuplicateDescription})
         => /\ Registry' = Registry
            /\ inst' = inst
            /\ initialized' = initialized
            /\ group'[g].name = group[g].name]_vars

\* C7: a read of g.values yields an array that is none of the registry's, with
\* the registered elements in their order; a write to that array (push, pop,
\* store, reverse) changes no registered sequence and no result of values,
\* byPropName or byDescription.
C7_ValuesIsDefensiveCopy ==
  [][/\ \A g \in Groups :
          ReadValues(g) =>
            /\ held' \notin {enumValues[n] : n \in Names}
            /\ arrays'[held'].elems =
                 (IF IsRegistered(group[g].name)
                    THEN RegisteredElems(group[g].name) ELSE <<>>)
            /\ Registry' = Registry
     /\ \A kind \in WriteKinds, i \in InstIds :
          WriteHeld(kind, i) =>
            /\ Registry' = Registry
            /\ \A g \in Groups :
                 /\ GroupValues(g)' = GroupValues(g)
                 /\ \A k \in Keys : ByPropName(g, k)' = ByPropName(g, k)
                 /\ \A d \in Descs : ByDescription(g, d)' = ByDescription(g, d)]_vars

\* a write has changed the array read from a sealed Enum object with members
C7_Witness ==
  /\ last.op = "arrayWrite"
  /\ err = Ok
  /\ GroupValues(last.g) # <<>>
  /\ arrays[held].elems # GroupValues(last.g)

C9_SealedIsFixed ==
  [][\A n \in Names, g \in Groups :
       <<n, g>> \in owner =>
         /\ group'[g].props = group[g].props
         /\ \A i \in Range(RegisteredElems(n)) : inst'[i] = inst[i]
         /\ Registry'[n] = Registry[n]]_vars

\* C10: a lookup on g by a property name, or by a description, that no member
\* of g has yields the absent result.
C10_LookupOfUnknownIsAbsent ==
  \A g \in Groups :
    /\ \A k \in Keys :
         (\A i \in MembersOf(g) : inst[i].propName # k) => ByPropName(g, k) = NotFound
    /\ \A d \in Descs :
         (\A i \in MembersOf(g) : inst[i].description # d) => ByDescription(g, d) = NotFound

\* g is sealed: its own initEnum registered the sequence its name is a key of
IsSealedGroup(g) == <<group[g].name, g>> \in owner

\* C11: for every sealed g and every member v of g.values, g.byPropName of
\* v's property name is v and g.byDescription of v's description is v.
C11_LookupRoundTrip ==
  \A g \in Groups : IsSealedGroup(g) =>
    \A j \in 1..Len(GroupValues(g)) :
      LET v == GroupValues(g)[j]
      IN /\ ByPropName(g, inst[v].propName) = v
         /\ ByDescription(g, inst[v].description) = v

\* the index fields of an instance record are both absent
IndexFieldsAbsent(r) == r.ordinal = NoOrdinal /\ r.propName = Undefined

\* C12: an instance has neither ordinal nor property name from its
\* construction on, a field that is absent is assigned by a sealing only, and
\* a field that has a value keeps it in every later operation.
C12_IndexFieldsLifecycle ==
  [][\A i \in 1..Len(inst') :
       IF i \notin InstIds
         THEN IndexFieldsAbsent(inst'[i])
         ELSE /\ inst'[i].ordinal # inst[i].ordinal =>
                   inst[i].ordinal = NoOrdinal /\ last'.op = "initEnum"
              /\ inst'[i].propName # inst[i].propName =>
                   inst[i].propName = Undefined /\ last'.op = "initEnum"]_vars

\* the sequence the last operation, a successful initEnum, registered
SealedNow == RegisteredElems(group[last.g].name)

\* the ordinal of the j-th element of elems is the one the TypeScript sealing
\* assigns, the 0-based position
OrdinalIsIndex(elems, j) == inst[elems[j]].ordinal = j - 1

\* instance i is the value of exactly one property of one Enum object
AttachedOnce(i) ==
  Cardinality({gj \in Groups \X (1..MaxProps) :
                 /\ gj[2] <= Len(group[gj[1]].props)
                 /\ group[gj[1]].props[gj[2]].val = i}) = 1

\* two elements of one class stand in elems against their construction order
OutOfOrder(elems) ==
  \E j, h \in 1..Len(elems) :
    j < h /\ inst[elems[j]].cls = inst[elems[h]].cls /\ elems[j] > elems[h]

\* the elements are of one class, they are all the instances of that class
\* constructed so far, and they stand in elems in construction order
WholeClassInOrder(elems) ==
  /\ \A j, h \in 1..Len(elems) : inst[elems[j]].cls = inst[elems[h]].cls
  /\ \A i \in InstIds :
       (\E j \in 1..Len(elems) : inst[i].cls = inst[elems[j]].cls) => i \in Range(elems)
  /\ \A j, h \in 1..Len(elems) : j < h => elems[j] < elems[h]

\* C13 as stated: after a sealing both builds give every member its position
\* as ordinal when the members of each class were constructed in the order
\* they are attached in and every instance is attached to one Enum object
\* only; the ES5 build gives some member another ordinal when members were
\* constructed out of order or a member is attached to another Enum object
\* too.
C13_SameOrdinalsAsClaimed ==
  JustSealed =>
    /\ (~OutOfOrder(SealedNow) /\ \A i \in InstIds : AttachedOnce(i))
         => \A j \in 1..Len(SealedNow) : OrdinalIsIndex(SealedNow, j)
    /\ (variant = "es5" /\ (OutOfOrder(SealedNow) \/ \E i \in Range(SealedNow) : ~AttachedOnce(i)))
         => \E j \in 1..Len(SealedNow) : ~OrdinalIsIndex(SealedNow, j)

\* C13: after a sealing the TypeScript build gives every member its position
\* as ordinal; the ES5 build gives the same ordinals when the members are all
\* the instances of one class, in construction order, and gives some member
\* another ordinal when two members of one class stand against their
\* construction order.
C13_SameOrdinals ==
  JustSealed =>
    /\ variant = "ts" => \A j \in 1..Len(SealedNow) : OrdinalIsIndex(SealedNow, j)
    /\ (variant = "es5" /\ WholeClassInOrder(SealedNow))
         => \A j \in 1..Len(SealedNow) : OrdinalIsIndex(SealedNow, j)
    /\ (variant = "es5" /\ OutOfOrder(SealedNow))
         => \E j \in 1..Len(SealedNow) : ~OrdinalIsIndex(SealedNow, j)

C13_Witness ==
  /\ JustSealed
  /\ variant = "es5"
  /\ Len(SealedNow) = 2
  /\ WholeClassInOrder(SealedNow)

\* C14: a construction succeeds exactly when the class is not sealed, a
\* successful one adds one instance with the given description, and no
\* construction changes the registry, a sealed marker, the per-class counters
\* or an Enum object; a sealed marker is set by an initEnum call only.
C14_ConstructOnlyReadsMarker ==
  [][/\ \A c \in Classes, d \in Descs : Construct(c, d) =>
          /\ err' = Ok <=> ~IsSealedClass(c)
          /\ err' = Ok =>
               /\ Len(inst') = Len(inst) + 1
               /\ inst'[Len(inst')].cls = c
               /\ inst'[Len(inst')].description = d
          /\ \A i \in InstIds : inst'[i] = inst[i]
          /\ Registry' = Registry
          /\ initialized' = initialized
          /\ sizes' = sizes
          /\ group' = group
     /\ initialized' # initialized => last'.op = "initEnum"]_vars

\* C15: in every state every element of g.values, and so every result of a
\* lookup on g, is one of g's own members: the value of one of g's own
\* properties or an instance g itself registered; an Enum object that was
\* never sealed, or whose initEnum failed, exposes no member of another one.
C15_ValuesAreOwnMembers ==
  \A g \in Groups :
    /\ Range(GroupValues(g)) \subseteq MembersOf(g)
    /\ \A k \in Keys : ByPropName(g, k) # NotFound => ByPropName(g, k) \in MembersOf(g)
    /\ \A d \in Descs : ByDescription(g, d) # NotFound => ByDescription(g, d) \in MembersOf(g)

\* the places, sequence and position, at which the registry holds instance i
Occurrences(i) ==
  {nj \in Names \X (1..MaxProps) :
     /\ IsRegistered(nj[1])
     /\ nj[2] <= Len(RegisteredElems(nj[1]))
     /\ RegisteredElems(nj[1])[nj[2]] = i}

====
